---- MODULE Spec2Model ----
(***************************************************************************)
(* Revenue spreading engine (src/src/processing/revenue_engine.py).        *)
(*                                                                         *)
(* A RevenueEngine is built with a list of tracked years.  For one         *)
(* proposal row, _compute_effective_dates resolves the effective start     *)
(* and stop dates, and calculate_revenue spreads the amount over calendar  *)
(* months, clamps the fragments to the tracked window and folds them into  *)
(* the per-year and per-quarter columns.                                   *)
(*                                                                         *)
(* Money is kept in exact arithmetic: a value is a fraction [n, d].  A     *)
(* date is a record [y, m, d]; NaT is the all-zero record.                 *)
(***************************************************************************)
EXTENDS Integers, Sequences, FiniteSets, TLC

(***************************************************************************)
(* Bounds of the model                                                     *)
(***************************************************************************)
\* Number of years an engine may track, counted from WindowBase.
NumTrackable == 3
\* First trackable year.
WindowBase == 2025

TrackableYears == WindowBase .. (WindowBase + NumTrackable - 1)
\* Input dates are drawn from one year before the trackable years to one
\* year after them.
DateYears == (WindowBase - 1) .. (WindowBase + NumTrackable)

(***************************************************************************)
(* Exact arithmetic                                                        *)
(*                                                                         *)
(* A value is a fraction [n, d] with d > 0, not reduced: two fractions are *)
(* the same number when RatEq holds.  Adding fractions of one denominator  *)
(* keeps the denominator, so the fragments of one row, which share theirs, *)
(* add up without growing it.                                              *)
(***************************************************************************)
Rat(n, d) == [n |-> n, d |-> d]
Zero == Rat(0, 1)
FromInt(k) == Rat(k, 1)
RatEq(a, b) == a.n * b.d = b.n * a.d
RatAdd(a, b) ==
    IF a.d = b.d THEN Rat(a.n + b.n, a.d)
    ELSE IF a.n = 0 THEN b
    ELSE IF b.n = 0 THEN a
    ELSE Rat(a.n * b.d + b.n * a.d, a.d * b.d)
RatMul(a, b) == Rat(a.n * b.n, a.d * b.d)
RatDivInt(a, k) == Rat(a.n, a.d * k)

(***************************************************************************)
(* pandas Timestamp, NaT and DateOffset(months=k)                          *)
(***************************************************************************)
NaT == [y |-> 0, m |-> 0, d |-> 0]
isna(t) == t.y = 0
Timestamp(y, m, d) == [y |-> y, m |-> m, d |-> d]

IsLeap(y) == (y % 4 = 0 /\ y % 100 # 0) \/ y % 400 = 0

DaysInMonth(y, m) ==
    IF m = 2 THEN (IF IsLeap(y) THEN 29 ELSE 28)
    ELSE IF m \in {4, 6, 9, 11} THEN 30 ELSE 31

\* The offset that keeps a day beyond the end of the target month by
\* rolling over to the first day of the month after it.
DateOffsetMonths_rolling_over(t, k) ==
    LET total == t.y * 12 + (t.m - 1) + k
        ny == total \div 12
        nm == (total % 12) + 1
        dim == DaysInMonth(ny, nm)
    IN  IF t.d > dim
        THEN [y |-> (total + 1) \div 12, m |-> ((total + 1) % 12) + 1, d |-> 1]
        ELSE [y |-> ny, m |-> nm, d |-> t.d]

\* t + pd.DateOffset(months=k): the month moves by k, the day is kept and
\* clipped to the length of the target month.
DateOffsetMonths(t, k) ==
    LET total == t.y * 12 + (t.m - 1) + k
        ny == total \div 12
        nm == (total % 12) + 1
        dim == DaysInMonth(ny, nm)
    IN  [y |-> ny, m |-> nm, d |-> IF t.d > dim THEN dim ELSE t.d]

\* a < b and a <= b on Timestamps (both operands are dates, never NaT)
DateLT(a, b) ==
    \/ a.y < b.y
    \/ a.y = b.y /\ a.m < b.m
    \/ a.y = b.y /\ a.m = b.m /\ a.d < b.d
DateLE(a, b) == a = b \/ DateLT(a, b)

(***************************************************************************)
(* RevenueEngine: columns and quarter                                      *)
(***************************************************************************)
\* The list in ascending order, as sorted(years_to_track) builds it from a
\* collection S of distinct years.
RECURSIVE sorted(_)
sorted(S) ==
    IF S = {} THEN <<>>
    ELSE LET lo == CHOOSE x \in S : \A z \in S : x <= z
         IN  <<lo>> \o sorted(S \ {lo})

Range(s) == {s[i] : i \in DOMAIN s}
min(s) == CHOOSE x \in Range(s) : \A z \in Range(s) : x <= z
max(s) == CHOOSE x \in Range(s) : \A z \in Range(s) : x >= z

\* Column names: kind "Total" / "Pondere"; q = 0 names the annual column
\* 'Montant <kind> <year>', q in 1..4 names 'Montant <kind> Q<q>_<year>'.
Col(kind, q, year) == [kind |-> kind, q |-> q, year |-> year]

\* The columns built for every year from the first to the last tracked one.
get_financial_columns_first_to_last(years) ==
    {Col(kind, q, year) : kind \in {"Total", "Pondere"}, q \in 0..4,
                          year \in min(years)..max(years)}

get_financial_columns(years) ==
    {Col(kind, q, years[i]) : kind \in {"Total", "Pondere"}, q \in 0..4, i \in DOMAIN years}

get_quarter(month) == (month - 1) \div 3 + 1

RevenueAllocation(year, month, amount) == [year |-> year, month |-> month, amount |-> amount]

(***************************************************************************)
(* Spreading                                                               *)
(***************************************************************************)
\* The enumeration that keeps the day of start and stops at the first date
\* after stop.
iter_calendar_month_starts_day_preserving(start, stop) ==
    IF isna(start) \/ isna(stop) THEN <<>>
    ELSE LET span == (stop.y - start.y) * 12 + (stop.m - start.m) + 1
             reached == {k \in 0..(span - 1) : DateLE(DateOffsetMonths(start, k), stop)}
         IN  [i \in 1..Cardinality(reached) |-> DateOffsetMonths(start, i - 1)]

\* Month starts of every calendar month from start's month through stop's
\* month, inclusive; day-of-month is ignored.
iter_calendar_month_starts(start, stop) ==
    IF isna(start) \/ isna(stop) THEN <<>>
    ELSE LET start_month == Timestamp(start.y, start.m, 1)
             stop_month == Timestamp(stop.y, stop.m, 1)
             count == (stop_month.y - start_month.y) * 12 + (stop_month.m - start_month.m) + 1
         IN  IF DateLT(stop_month, start_month) THEN <<>>
             ELSE [i \in 1..count |-> DateOffsetMonths(start_month, i - 1)]

\* The spreading over the whole months only: the month of stop is left
\* out when the day of stop is before the day of start.
spread_maintenance_whole_months(amount, start, stop) ==
    LET all_months == iter_calendar_month_starts(start, stop)
        months == IF Len(all_months) > 1 /\ stop.d < start.d
                  THEN SubSeq(all_months, 1, Len(all_months) - 1)
                  ELSE all_months
        monthly_amount == RatDivInt(amount, Len(months))
    IN  IF Len(months) = 0 THEN <<>>
        ELSE [i \in 1..Len(months) |->
                RevenueAllocation(months[i].y, months[i].m, monthly_amount)]

spread_maintenance(amount, start, stop) ==
    LET months == iter_calendar_month_starts(start, stop)
        monthly_amount == RatDivInt(amount, Len(months))
    IN  IF Len(months) = 0 THEN <<>>
        ELSE [i \in 1..Len(months) |->
                RevenueAllocation(months[i].y, months[i].m, monthly_amount)]

\* _spread_travaux with "short" read as a duration under one month.
spread_travaux_short_by_duration(amount, start, stop) ==
    IF isna(stop) \/ DateLT(stop, DateOffsetMonths(start, 1))
    THEN <<RevenueAllocation(start.y, start.m, amount)>>
    ELSE LET months == iter_calendar_month_starts(start, stop)
             monthly_amount == RatDivInt(amount, Len(months))
         IN  IF Len(months) = 0 THEN <<>>
             ELSE [i \in 1..Len(months) |->
                     RevenueAllocation(months[i].y, months[i].m, monthly_amount)]

spread_travaux(amount, start, stop) ==
    IF start.y = stop.y /\ start.m = stop.m
    THEN <<RevenueAllocation(start.y, start.m, amount)>>
    ELSE LET months == iter_calendar_month_starts(start, stop)
             monthly_amount == RatDivInt(amount, Len(months))
         IN  IF Len(months) = 0 THEN <<>>
             ELSE [i \in 1..Len(months) |->
                     RevenueAllocation(months[i].y, months[i].m, monthly_amount)]

\* current after k rounds of  current = current + pd.DateOffset(months=1)
RECURSIVE StepMonths(_, _)
StepMonths(current, k) ==
    IF k = 0 THEN current ELSE StepMonths(DateOffsetMonths(current, 1), k - 1)

\* The phase loop that advances current before it appends.
PhaseLoop_step_first(current, count, monthly) ==
    [i \in 1..count |->
        LET c == StepMonths(current, i)
        IN  RevenueAllocation(c.y, c.m, monthly)]

\* One phase loop of _spread_conception: count fragments of monthly each,
\* one per round, starting at current.
PhaseLoop(current, count, monthly) ==
    [i \in 1..count |->
        LET c == StepMonths(current, i - 1)
        IN  RevenueAllocation(c.y, c.m, monthly)]

CONCEPTION_THRESHOLD_LOW == 15000
CONCEPTION_THRESHOLD_HIGH == 30000

\* _spread_conception with the high threshold exclusive: an amount equal to
\* it takes the large branch.
spread_conception_high_exclusive(amount, start) ==
    IF amount.n < CONCEPTION_THRESHOLD_LOW * amount.d
    THEN PhaseLoop(start, 3, RatDivInt(amount, 3))
    ELSE IF amount.n < CONCEPTION_THRESHOLD_HIGH * amount.d
    THEN LET phase1_monthly == RatDivInt(RatMul(amount, Rat(3, 5)), 6)
             after1 == StepMonths(start, 6)
             after_pause == DateOffsetMonths(after1, 6)
             phase2_monthly == RatDivInt(RatMul(amount, Rat(2, 5)), 6)
         IN  PhaseLoop(start, 6, phase1_monthly) \o PhaseLoop(after_pause, 6, phase2_monthly)
    ELSE LET phase1_monthly == RatDivInt(RatMul(amount, Rat(2, 5)), 12)
             after1 == StepMonths(start, 12)
             after_pause == DateOffsetMonths(after1, 6)
             phase2_monthly == RatDivInt(RatMul(amount, Rat(3, 5)), 12)
         IN  PhaseLoop(start, 12, phase1_monthly) \o PhaseLoop(after_pause, 12, phase2_monthly)

\* _spread_conception with the large branch phased like the medium one:
\* 60% first, 40% after the pause.
spread_conception_large_60_then_40(amount, start) ==
    IF amount.n < CONCEPTION_THRESHOLD_LOW * amount.d
    THEN PhaseLoop(start, 3, RatDivInt(amount, 3))
    ELSE IF amount.n <= CONCEPTION_THRESHOLD_HIGH * amount.d
    THEN LET phase1_monthly == RatDivInt(RatMul(amount, Rat(3, 5)), 6)
             after1 == StepMonths(start, 6)
             after_pause == DateOffsetMonths(after1, 6)
             phase2_monthly == RatDivInt(RatMul(amount, Rat(2, 5)), 6)
         IN  PhaseLoop(start, 6, phase1_monthly) \o PhaseLoop(after_pause, 6, phase2_monthly)
    ELSE LET phase1_monthly == RatDivInt(RatMul(amount, Rat(3, 5)), 12)
             after1 == StepMonths(start, 12)
             after_pause == DateOffsetMonths(after1, 6)
             phase2_monthly == RatDivInt(RatMul(amount, Rat(2, 5)), 12)
         IN  PhaseLoop(start, 12, phase1_monthly) \o PhaseLoop(after_pause, 12, phase2_monthly)

\* amount is a fraction here; amount * 0.60 and amount * 0.40 are 3/5 and 2/5.
spread_conception(amount, start) ==
    IF amount.n < CONCEPTION_THRESHOLD_LOW * amount.d
    THEN PhaseLoop(start, 3, RatDivInt(amount, 3))
    ELSE IF amount.n <= CONCEPTION_THRESHOLD_HIGH * amount.d
    THEN LET phase1_monthly == RatDivInt(RatMul(amount, Rat(3, 5)), 6)
             after1 == StepMonths(start, 6)
             after_pause == DateOffsetMonths(after1, 6)
             phase2_monthly == RatDivInt(RatMul(amount, Rat(2, 5)), 6)
         IN  PhaseLoop(start, 6, phase1_monthly) \o PhaseLoop(after_pause, 6, phase2_monthly)
    ELSE LET phase1_monthly == RatDivInt(RatMul(amount, Rat(2, 5)), 12)
             after1 == StepMonths(start, 12)
             after_pause == DateOffsetMonths(after1, 6)
             phase2_monthly == RatDivInt(RatMul(amount, Rat(3, 5)), 12)
         IN  PhaseLoop(start, 12, phase1_monthly) \o PhaseLoop(after_pause, 12, phase2_monthly)

(***************************************************************************)
(* Date resolver (Rules 1-3)                                               *)
(***************************************************************************)
\* A row that carries no final_bu at all.
NoValue == "(no value)"
\* None, where the other values are sequences: an optional value is None
\* or Some(v).
None == <<>>
Some(v) == <<v>>

\* row.get('final_bu', 'AUTRE')
get_final_bu(row) == IF row.final_bu = NoValue THEN "AUTRE" ELSE row.final_bu

Resolved(effective_start, effective_stop, rule_applied, rule_name) ==
    [effective_start |-> effective_start, effective_stop |-> effective_stop,
     rule_applied |-> rule_applied, rule_name |-> rule_name]

\* Rule 1 with MAINTENANCE going back a full 12 months.
rule1_start_missing_12_months(bu, stop, proposal_date) ==
    IF bu = "MAINTENANCE"
    THEN Resolved(DateOffsetMonths(stop, -12), stop, TRUE, "rule1_start_missing_maintenance")
    ELSE IF bu = "TRAVAUX"
    THEN Resolved(proposal_date, stop, TRUE, "rule1_start_missing_travaux")
    ELSE IF bu = "CONCEPTION"
    THEN Resolved(proposal_date, NaT, TRUE, "rule1_start_missing_conception")
    ELSE Resolved(proposal_date, stop, TRUE, "rule1_start_missing_default")

\* Rule 1: only start missing (proposal_date is present here)
rule1_start_missing(bu, stop, proposal_date) ==
    IF bu = "MAINTENANCE"
    THEN Resolved(DateOffsetMonths(stop, -11), stop, TRUE, "rule1_start_missing_maintenance")
    ELSE IF bu = "TRAVAUX"
    THEN Resolved(proposal_date, stop, TRUE, "rule1_start_missing_travaux")
    ELSE IF bu = "CONCEPTION"
    THEN Resolved(proposal_date, NaT, TRUE, "rule1_start_missing_conception")
    ELSE Resolved(proposal_date, stop, TRUE, "rule1_start_missing_default")

\* Rule 2: only end missing
rule2_end_missing(bu, start) ==
    IF bu = "MAINTENANCE"
    THEN Resolved(start, DateOffsetMonths(start, 11), TRUE, "rule2_end_missing_maintenance")
    ELSE IF bu = "TRAVAUX"
    THEN Resolved(start, DateOffsetMonths(start, 5), TRUE, "rule2_end_missing_travaux")
    ELSE IF bu = "CONCEPTION"
    THEN Resolved(start, NaT, FALSE, "none")
    ELSE Resolved(start, DateOffsetMonths(start, 5), TRUE, "rule2_end_missing_default")

\* Rule 3 with the default bucket given the MAINTENANCE duration.
rule3_both_missing_default_12_months(bu, proposal_date) ==
    IF bu = "MAINTENANCE"
    THEN Resolved(proposal_date, DateOffsetMonths(proposal_date, 11), TRUE,
                  "rule3_both_missing_maintenance")
    ELSE IF bu = "TRAVAUX"
    THEN Resolved(proposal_date, DateOffsetMonths(proposal_date, 5), TRUE,
                  "rule3_both_missing_travaux")
    ELSE IF bu = "CONCEPTION"
    THEN Resolved(proposal_date, NaT, TRUE, "rule3_both_missing_conception")
    ELSE Resolved(proposal_date, DateOffsetMonths(proposal_date, 11), TRUE,
                  "rule3_both_missing_default")

\* Rule 3: both missing
rule3_both_missing(bu, proposal_date) ==
    IF bu = "MAINTENANCE"
    THEN Resolved(proposal_date, DateOffsetMonths(proposal_date, 11), TRUE,
                  "rule3_both_missing_maintenance")
    ELSE IF bu = "TRAVAUX"
    THEN Resolved(proposal_date, DateOffsetMonths(proposal_date, 5), TRUE,
                  "rule3_both_missing_travaux")
    ELSE IF bu = "CONCEPTION"
    THEN Resolved(proposal_date, NaT, TRUE, "rule3_both_missing_conception")
    ELSE Resolved(proposal_date, DateOffsetMonths(proposal_date, 5), TRUE,
                  "rule3_both_missing_default")

\* The test "start <= stop" made strict.
dates_in_order_strict(start, stop) == DateLT(start, stop)

\* "if start <= stop" for two present dates
dates_in_order(start, stop) == DateLE(start, stop)

\* The demotion of start > stop that forgets stop_missing.
missing_flags_start_only(start, stop) ==
    LET invalid == ~isna(start) /\ ~isna(stop) /\ ~dates_in_order(start, stop)
    IN  [start_missing |-> isna(start) \/ invalid, stop_missing |-> isna(stop)]

\* start_missing and stop_missing once the clean case has returned: a start
\* after the stop counts as both missing.
missing_flags(start, stop) ==
    LET invalid == ~isna(start) /\ ~isna(stop) /\ ~dates_in_order(start, stop)
    IN  [start_missing |-> isna(start) \/ invalid, stop_missing |-> isna(stop) \/ invalid]

\* The failure return with the flag raised.
missing_all_dates_flagged == Resolved(NaT, NaT, TRUE, "missing_all_dates")

\* "If proposal_date is also missing, we can't apply any rule"
missing_all_dates == Resolved(NaT, NaT, FALSE, "missing_all_dates")

\* The resolver with the proposal_date test made only where both project
\* dates are missing.
compute_effective_dates_late_test(row) ==
    LET bu == get_final_bu(row)
        start == row.projet_start
        stop == row.projet_stop
        proposal_date == row.date
        flags == missing_flags(start, stop)
    IN  IF ~isna(start) /\ ~isna(stop) /\ dates_in_order(start, stop)
        THEN Resolved(start, stop, FALSE, "none")
        ELSE IF flags.start_missing /\ ~flags.stop_missing
        THEN rule1_start_missing(bu, stop, proposal_date)
        ELSE IF ~flags.start_missing /\ flags.stop_missing
        THEN rule2_end_missing(bu, start)
        ELSE IF isna(proposal_date)
        THEN missing_all_dates
        ELSE rule3_both_missing(bu, proposal_date)

compute_effective_dates(row) ==
    LET bu == get_final_bu(row)
        start == row.projet_start
        stop == row.projet_stop
        proposal_date == row.date
        flags == missing_flags(start, stop)
        proposal_date_valid == ~isna(proposal_date)
    IN  IF ~isna(start) /\ ~isna(stop) /\ dates_in_order(start, stop)
        THEN Resolved(start, stop, FALSE, "none")
        ELSE IF ~proposal_date_valid
        THEN missing_all_dates
        ELSE IF flags.start_missing /\ ~flags.stop_missing
        THEN rule1_start_missing(bu, stop, proposal_date)
        ELSE IF ~flags.start_missing /\ flags.stop_missing
        THEN rule2_end_missing(bu, start)
        ELSE IF flags.start_missing /\ flags.stop_missing
        THEN rule3_both_missing(bu, proposal_date)
        ELSE Resolved(NaT, NaT, FALSE, "unknown")

(***************************************************************************)
(* Clamping (Rule 4) and the fold into the columns                         *)
(***************************************************************************)
\* Clamping that sends both sides of the window to month 1.
clamp_allocation_to_window_month_1(alloc, first_year, last_year) ==
    IF alloc.year < first_year
    THEN RevenueAllocation(first_year, 1, alloc.amount)
    ELSE IF alloc.year > last_year
    THEN RevenueAllocation(last_year, 1, alloc.amount)
    ELSE alloc

clamp_allocation_to_window(alloc, first_year, last_year) ==
    IF alloc.year < first_year
    THEN RevenueAllocation(first_year, 1, alloc.amount)
    ELSE IF alloc.year > last_year
    THEN RevenueAllocation(last_year, 12, alloc.amount)
    ELSE alloc

\* The guard that only asks for a year inside the window.
tracked_within_window(alloc, years) ==
    min(years) <= alloc.year /\ alloc.year <= max(years)

\* "if alloc.year in self.years_to_track"
tracked(alloc, years) == alloc.year \in Range(years)

\* The round that adds the weighted amount to the quarter column of the
\* totals.
Contribution_quarter_weighted(alloc, col, years, prob_factor) ==
    IF tracked(alloc, years)
    THEN LET quarter == get_quarter(alloc.month)
             weighted == RatMul(alloc.amount, prob_factor)
         IN  IF col.year = alloc.year /\ col.q \in {0, quarter}
             THEN (IF col.kind = "Total" /\ col.q = 0 THEN alloc.amount ELSE weighted)
             ELSE Zero
    ELSE Zero

\* The round that weights the annual column only and adds the plain amount
\* to the weighted quarter column.
Contribution_weighted_annual_only(alloc, col, years, prob_factor) ==
    IF tracked(alloc, years)
    THEN LET quarter == get_quarter(alloc.month)
             weighted == RatMul(alloc.amount, prob_factor)
         IN  IF col.year = alloc.year /\ col.q \in {0, quarter}
             THEN (IF col.kind = "Pondere" /\ col.q = 0 THEN weighted ELSE alloc.amount)
             ELSE Zero
    ELSE Zero

\* What one round of the loop "for alloc in clamped_allocations" adds to
\* column col: the round touches the annual and the quarter column of
\* alloc.year, Total and Pondere, and only if alloc.year is tracked.
Contribution(alloc, col, years, prob_factor) ==
    IF tracked(alloc, years)
    THEN LET quarter == get_quarter(alloc.month)
             weighted == RatMul(alloc.amount, prob_factor)
         IN  IF col.year = alloc.year /\ col.q \in {0, quarter}
             THEN (IF col.kind = "Total" THEN alloc.amount ELSE weighted)
             ELSE Zero
    ELSE Zero

\* The value the loop leaves in column col after the rounds lo..hi, the
\* column starting at 0.0 (the sum is taken by halves).
RECURSIVE Populate(_, _, _, _, _, _)
Populate(allocs, lo, hi, col, years, prob_factor) ==
    IF lo > hi THEN Zero
    ELSE IF lo = hi THEN Contribution(allocs[lo], col, years, prob_factor)
    ELSE LET mid == (lo + hi) \div 2
         IN  RatAdd(Populate(allocs, lo, mid, col, years, prob_factor),
                    Populate(allocs, mid + 1, hi, col, years, prob_factor))

(***************************************************************************)
(* calculate_revenue                                                       *)
(***************************************************************************)
Result(cols, rule_applied, rule, effective_start, effective_stop) ==
    [cols |-> cols, dates_rule_applied |-> rule_applied, dates_rule |-> rule,
     dates_effective_start |-> effective_start, dates_effective_stop |-> effective_stop]

\* result as calculate_revenue initialises it: every column 0.0, the
\* flagging columns at their defaults.
initial_result(years) ==
    Result([c \in get_financial_columns(years) |-> Zero], FALSE, "none", NaT, NaT)

\* The fallback test that looks only for a missing stop.
needs_fallback_missing_stop_only(bu, effective_start, effective_stop) ==
    /\ bu # "CONCEPTION"
    /\ isna(effective_stop)

\* "For duration-based BUs, ensure we have a valid stop"
needs_fallback(bu, effective_start, effective_stop) ==
    /\ bu # "CONCEPTION"
    /\ (isna(effective_stop) \/ DateLT(effective_stop, effective_start))

\* "Calculate monthly allocations based on BU"; effective_stop is the local
\* after the fallback.
spread_by_bu(bu, amount, effective_start, effective_stop) ==
    IF bu = "CONCEPTION" THEN spread_conception(amount, effective_start)
    ELSE IF bu = "MAINTENANCE" THEN spread_maintenance(amount, effective_start, effective_stop)
    ELSE IF bu = "TRAVAUX" THEN spread_travaux(amount, effective_start, effective_stop)
    ELSE spread_travaux(amount, effective_start, effective_stop)

\* "Apply Rule 4: Clamp allocations outside window"
clamp_all(allocations, first_year, last_year) ==
    [i \in 1..Len(allocations) |->
        clamp_allocation_to_window(allocations[i], first_year, last_year)]

\* "Populate columns from clamped allocations"
populate_columns(years, clamped, prob_factor) ==
    [c \in get_financial_columns(years) |->
        Populate(clamped, 1, Len(clamped), c, years, prob_factor)]

\* "result[f'Montant Total {alloc.year}'] += alloc.amount" raises KeyError
\* when a round that passes the guard names a column result does not hold.
raises_KeyError(years, clamped) ==
    \E i \in DOMAIN clamped :
        /\ tracked(clamped[i], years)
        /\ \E kind \in {"Total", "Pondere"} :
              \E q \in {0, get_quarter(clamped[i].month)} :
                  Col(kind, q, clamped[i].year) \notin get_financial_columns(years)

\* What calculate_revenue holds when it ends: the result it returns and its
\* locals (the effective dates it spread over, the fragments before and
\* after clamping), and whether it ended by raising instead of returning.
Frame(result, effective_start, effective_stop, allocations, clamped_allocations, raised) ==
    [result |-> result, effective_start |-> effective_start,
     effective_stop |-> effective_stop, allocations |-> allocations,
     clamped_allocations |-> clamped_allocations, raised |-> raised]

\* calculate_revenue with the resolver run before the zero-amount return.
calculate_revenue_frame_resolve_first(years, row) ==
    LET amount == row.amount
        prob_factor == row.probability_factor
        bu == get_final_bu(row)
        eff == compute_effective_dates(row)
        first_year == min(years)
        last_year == max(years)
        fallback == needs_fallback(bu, eff.effective_start, eff.effective_stop)
        effective_stop == IF fallback THEN eff.effective_start ELSE eff.effective_stop
        dates_rule == IF fallback /\ eff.rule_applied
                      THEN eff.rule_name \o "_fallback_1month" ELSE eff.rule_name
        allocations == spread_by_bu(bu, FromInt(amount), eff.effective_start, effective_stop)
        clamped_allocations == clamp_all(allocations, first_year, last_year)
    IN  IF amount = 0 \/ isna(eff.effective_start)
        THEN Frame(Result(initial_result(years).cols, eff.rule_applied, eff.rule_name,
                          eff.effective_start, eff.effective_stop),
                   eff.effective_start, eff.effective_stop, <<>>, <<>>, FALSE)
        ELSE Frame(Result(populate_columns(years, clamped_allocations, prob_factor),
                          eff.rule_applied, dates_rule,
                          eff.effective_start, eff.effective_stop),
                   eff.effective_start, effective_stop, allocations, clamped_allocations,
                   raises_KeyError(years, clamped_allocations))

calculate_revenue_frame(years, row) ==
    LET amount == row.amount
        prob_factor == row.probability_factor
        bu == get_final_bu(row)
        eff == compute_effective_dates(row)
        first_year == min(years)
        last_year == max(years)
        fallback == needs_fallback(bu, eff.effective_start, eff.effective_stop)
        effective_stop == IF fallback THEN eff.effective_start ELSE eff.effective_stop
        dates_rule == IF fallback /\ eff.rule_applied
                      THEN eff.rule_name \o "_fallback_1month" ELSE eff.rule_name
        allocations == spread_by_bu(bu, FromInt(amount), eff.effective_start, effective_stop)
        clamped_allocations == clamp_all(allocations, first_year, last_year)
    IN  IF amount = 0
        THEN Frame(initial_result(years), NaT, NaT, <<>>, <<>>, FALSE)
        ELSE IF isna(eff.effective_start)
        THEN Frame(Result(initial_result(years).cols, eff.rule_applied, eff.rule_name,
                          eff.effective_start, eff.effective_stop),
                   eff.effective_start, eff.effective_stop, <<>>, <<>>, FALSE)
        ELSE Frame(Result(populate_columns(years, clamped_allocations, prob_factor),
                          eff.rule_applied, dates_rule,
                          eff.effective_start, eff.effective_stop),
                   eff.effective_start, effective_stop, allocations, clamped_allocations,
                   raises_KeyError(years, clamped_allocations))

calculate_revenue(years, row) == calculate_revenue_frame(years, row).result

(***************************************************************************)
(* State                                                                   *)
(***************************************************************************)
VARIABLES
    years_to_track,       \* RevenueEngine.years_to_track
    row,                  \* the proposal row handed to the engine
    pc,                   \* "start", "resolved" (resolver returned), "done"
                          \* (calculate_revenue returned), "raised", or the
                          \* name of the spreading function that returned
    resolved,             \* what _compute_effective_dates returned
    allocations,          \* calculate_revenue: fragments before clamping
    clamped_allocations,  \* calculate_revenue: fragments after clamping
    spread_start,         \* calculate_revenue: local effective_start at return
    spread_stop,          \* calculate_revenue: local effective_stop at return
    result,               \* what calculate_revenue returned
    \* RevenueEngine.process
    df,                   \* the caller's frame: rows with their index labels
    out,                  \* process: its copy of the frame, returned at the end
    cursor,               \* process: position of iterrows in the frame
    \* TravauxProjectionGenerator
    today,                \* self.today
    window_end,           \* self.window_end
    matched,              \* what _matches_criteria returned
    \* typologie_allocation
    tags,                 \* the caller's list handed to inject_ts_tag
    title,                \* the title handed to inject_ts_tag
    injected,             \* what inject_ts_tag returned
    tags_for_count,       \* allocate_typologie_for_row: first returned value
    primary_for_amount,   \* allocate_typologie_for_row: second returned value
    \* ProposalsClient.fetch_all
    server,               \* the proposals the API holds and how it answers
    offset,               \* fetch_all: local offset
    all_proposals         \* fetch_all: local all_proposals

engine_vars == <<years_to_track, row, pc, resolved, allocations, clamped_allocations,
                 spread_start, spread_stop, result>>
process_vars == <<df, out, cursor>>
projection_vars == <<today, window_end, matched>>
typologie_vars == <<tags, title, injected, tags_for_count, primary_for_amount>>
fetch_vars == <<server, offset, all_proposals>>

vars == <<engine_vars, process_vars, projection_vars, typologie_vars, fetch_vars>>

\* The parts of the program an operation of the engine does not touch.
non_engine_vars == <<process_vars, projection_vars, typologie_vars, fetch_vars>>

(***************************************************************************)
(* Inputs                                                                  *)
(***************************************************************************)
BusinessUnits == {"CONCEPTION", "TRAVAUX", "MAINTENANCE", "AUTRE"}
\* (amount, probability_factor): a zero amount and one amount in each
\* CONCEPTION bracket.
AmountsAndFactors ==
    {<<0, Rat(1, 2)>>, <<12000, Rat(1, 1)>>, <<15000, Rat(1, 2)>>, <<36000, Rat(1, 2)>>}

\* Project dates: a month end and a mid-month day in every year.
ProjectDates ==
    {NaT} \cup {Timestamp(y, 1, 31) : y \in DateYears}
          \cup {Timestamp(y, 10, 20) : y \in DateYears}
\* Proposal dates: missing, before the trackable years, inside them.
ProposalDates == {NaT, Timestamp(WindowBase - 1, 12, 19), Timestamp(WindowBase + 1, 12, 19)}

Rows ==
    {[amount |-> af[1], probability_factor |-> af[2], final_bu |-> bu,
      projet_start |-> start, projet_stop |-> stop, date |-> proposal_date] :
        af \in AmountsAndFactors, bu \in BusinessUnits,
        start \in ProjectDates, stop \in ProjectDates, proposal_date \in ProposalDates}

TrackedChoices == (SUBSET TrackableYears) \ {{}}

\* No frame is being processed.
ProcessIdle == df = <<>> /\ out = <<>> /\ cursor = 0
\* No projection generator is in use.
ProjectionIdle == today = 0 /\ window_end = 0 /\ matched = FALSE
\* No typologie is being allocated.
TypologieIdle ==
    /\ tags = <<>> /\ title = None /\ injected = <<>>
    /\ tags_for_count = <<>> /\ primary_for_amount = None
\* No fetch is running.
FetchIdle == server = <<>> /\ offset = 0 /\ all_proposals = <<>>

\* RevenueEngine.__init__ with an explicit list of years, and a row.
EngineInit(choices, rows) ==
    /\ years_to_track \in {sorted(S) : S \in choices}
    /\ row \in rows
    /\ pc = "start"
    /\ resolved = Resolved(NaT, NaT, FALSE, "none")
    /\ allocations = <<>>
    /\ clamped_allocations = <<>>
    /\ spread_start = NaT
    /\ spread_stop = NaT
    /\ result = initial_result(years_to_track)

InitWith(choices, rows) ==
    /\ EngineInit(choices, rows)
    /\ ProcessIdle /\ ProjectionIdle /\ TypologieIdle /\ FetchIdle

Init == InitWith(TrackedChoices, Rows)

(***************************************************************************)
(* Operations                                                              *)
(***************************************************************************)
\* engine._compute_effective_dates(row)
ComputeEffectiveDates ==
    /\ pc = "start"
    /\ resolved' = compute_effective_dates(row)
    /\ pc' = "resolved"
    /\ UNCHANGED <<years_to_track, row, allocations, clamped_allocations,
                   spread_start, spread_stop, result>>
    /\ UNCHANGED non_engine_vars

\* engine.calculate_revenue(row)
CalculateRevenue ==
    /\ pc = "start"
    /\ \E f \in {calculate_revenue_frame(years_to_track, row)} :
           /\ pc' = IF f.raised THEN "raised" ELSE "done"
           /\ result' = IF f.raised THEN result ELSE f.result
           /\ allocations' = f.allocations
           /\ clamped_allocations' = f.clamped_allocations
           /\ spread_start' = f.effective_start
           /\ spread_stop' = f.effective_stop
    /\ UNCHANGED <<years_to_track, row, resolved>>
    /\ UNCHANGED non_engine_vars

Next == ComputeEffectiveDates \/ CalculateRevenue

Spec == Init /\ [][Next]_vars

(***************************************************************************)
(* Rows of the default bucket                                              *)
(*                                                                         *)
(* final_bu comes from DataCleaner.assign_bu, which returns 'AUTRE' or the *)
(* raw upper-cased cf_bu when no keyword matches; a row may also lack the  *)
(* key.  DefaultBucketSpec runs the engine on such rows.                   *)
(***************************************************************************)
DefaultBucketUnits == {"AUTRE", "PAYSAGE", NoValue}

DefaultBucketRows ==
    {[amount |-> af[1], probability_factor |-> af[2], final_bu |-> bu,
      projet_start |-> start, projet_stop |-> stop, date |-> proposal_date] :
        af \in AmountsAndFactors, bu \in DefaultBucketUnits,
        start \in ProjectDates, stop \in ProjectDates, proposal_date \in ProposalDates}

DefaultBucketInit == InitWith(TrackedChoices, DefaultBucketRows)

DefaultBucketSpec == DefaultBucketInit /\ [][Next]_vars

(***************************************************************************)
(* The spreading functions on their own                                    *)
(*                                                                         *)
(* _spread_maintenance, _spread_travaux and _spread_conception are pure    *)
(* functions of (amount, start, stop).  SpreadSpec applies each of them to *)
(* arguments carried by the row's amount, projet_start and projet_stop:    *)
(* amounts on both sides of the two CONCEPTION thresholds, starts on month *)
(* ends, a leap day and mid-month days, stops present or NaT.              *)
(***************************************************************************)
SpreadAmounts ==
    {3000, CONCEPTION_THRESHOLD_LOW - 1, CONCEPTION_THRESHOLD_LOW, 24000,
     CONCEPTION_THRESHOLD_HIGH, CONCEPTION_THRESHOLD_HIGH + 1, 36000}

SpreadStarts ==
    {Timestamp(WindowBase - 1, 2, 29), Timestamp(WindowBase, 1, 1),
     Timestamp(WindowBase, 1, 31), Timestamp(WindowBase, 10, 20),
     Timestamp(WindowBase, 12, 19), Timestamp(WindowBase, 12, 31)}

SpreadStops ==
    {NaT} \cup SpreadStarts
          \cup {Timestamp(WindowBase + 1, 1, 5), Timestamp(WindowBase + 2, 10, 5)}

SpreadRows ==
    {[amount |-> amount, probability_factor |-> Rat(1, 2), final_bu |-> "AUTRE",
      projet_start |-> start, projet_stop |-> stop, date |-> NaT] :
        amount \in SpreadAmounts, start \in SpreadStarts, stop \in SpreadStops}

SpreadInit == InitWith({TrackableYears}, SpreadRows)

\* engine._spread_maintenance(amount, start, stop)
SpreadMaintenance ==
    /\ pc = "start"
    /\ allocations' =
          spread_maintenance(FromInt(row.amount), row.projet_start, row.projet_stop)
    /\ pc' = "spread_maintenance"
    /\ UNCHANGED <<years_to_track, row, resolved, clamped_allocations,
                   spread_start, spread_stop, result>>
    /\ UNCHANGED non_engine_vars

\* engine._spread_travaux(amount, start, stop)
SpreadTravaux ==
    /\ pc = "start"
    /\ allocations' =
          spread_travaux(FromInt(row.amount), row.projet_start, row.projet_stop)
    /\ pc' = "spread_travaux"
    /\ UNCHANGED <<years_to_track, row, resolved, clamped_allocations,
                   spread_start, spread_stop, result>>
    /\ UNCHANGED non_engine_vars

\* engine._spread_conception(amount, start)
SpreadConception ==
    /\ pc = "start"
    /\ allocations' = spread_conception(FromInt(row.amount), row.projet_start)
    /\ pc' = "spread_conception"
    /\ UNCHANGED <<years_to_track, row, resolved, clamped_allocations,
                   spread_start, spread_stop, result>>
    /\ UNCHANGED non_engine_vars

SpreadNext == SpreadMaintenance \/ SpreadTravaux \/ SpreadConception

SpreadSpec == SpreadInit /\ [][SpreadNext]_vars

(***************************************************************************)
(* RevenueEngine.process                                                   *)
(*                                                                         *)
(* A frame is its columns beyond the input ones (the financial columns and *)
(* the flagging columns it holds) and its rows in order; a row carries its *)
(* index label, its input columns (row) and, when the frame has financial  *)
(* and flagging columns, their values (cells).                             *)
(***************************************************************************)
\* Most rows a frame holds.
MaxRows == 2

IndexLabels == {0, 1}

ProposalRow(amount, probability_factor, final_bu, projet_start, projet_stop, date) ==
    [amount |-> amount, probability_factor |-> probability_factor, final_bu |-> final_bu,
     projet_start |-> projet_start, projet_stop |-> projet_stop, date |-> date]

\* Rows of a cleaned frame: a rule 3 row, a zero amount, a CONCEPTION row
\* without stop, a row that takes the 1-month fallback, a row without any
\* date, a clean row.
ProcessRows ==
    {ProposalRow(12000, Rat(1, 1), "MAINTENANCE", NaT, NaT, Timestamp(WindowBase + 1, 12, 19)),
     ProposalRow(0, Rat(1, 2), "TRAVAUX",
                 Timestamp(WindowBase, 1, 31), Timestamp(WindowBase, 10, 20), NaT),
     ProposalRow(15000, Rat(1, 2), "CONCEPTION", Timestamp(WindowBase, 10, 20), NaT, NaT),
     ProposalRow(36000, Rat(1, 2), "TRAVAUX",
                 NaT, Timestamp(WindowBase, 1, 31), Timestamp(WindowBase + 1, 12, 19)),
     ProposalRow(12000, Rat(1, 1), "AUTRE", NaT, NaT, NaT),
     ProposalRow(12000, Rat(1, 1), "TRAVAUX",
                 Timestamp(WindowBase, 1, 31), Timestamp(WindowBase, 10, 20), NaT)}

\* The caller's frames: input columns only.
InputFrames ==
    UNION {[1..n -> [label : IndexLabels, row : ProcessRows, cells : {NoValue}]] :
              n \in 0..MaxRows}

DataFrame(columns, rows) == [columns |-> columns, rows |-> rows]

Columns(financial, flagging) == [financial |-> financial, flagging |-> flagging]

\* 'dates_rule_applied', 'dates_rule', 'dates_effective_start',
\* 'dates_effective_stop'
flagging_columns ==
    {"dates_rule_applied", "dates_rule", "dates_effective_start", "dates_effective_stop"}

\* "df = df.copy()" followed by "Initialize financial columns" and
\* "Initialize flagging columns"
initialize_columns(years, frame) ==
    DataFrame(Columns(frame.columns.financial \cup get_financial_columns(years),
                      frame.columns.flagging \cup flagging_columns),
              [i \in DOMAIN frame.rows |->
                  [frame.rows[i] EXCEPT !.cells = initial_result(years)]])

\* "for col, value in revenue_data.items(): df.at[index, col] = value":
\* .at on an index with repeated labels assigns like .loc, to every row
\* that carries the label.
set_at(frame, index, revenue_data) ==
    DataFrame(frame.columns,
              [i \in DOMAIN frame.rows |->
                  IF frame.rows[i].label = index
                  THEN [frame.rows[i] EXCEPT !.cells = revenue_data]
                  ELSE frame.rows[i]])

IdleRow == ProposalRow(0, Rat(1, 2), "AUTRE", NaT, NaT, NaT)

ProcessInit ==
    /\ EngineInit(TrackedChoices, {IdleRow})
    /\ df \in {DataFrame(Columns({}, {}), rows) : rows \in InputFrames}
    /\ out = <<>>
    /\ cursor = 0
    /\ ProjectionIdle /\ TypologieIdle /\ FetchIdle

\* engine.process(df) up to the loop: an empty frame is returned as it is.
ProcessBegin ==
    /\ pc = "start"
    /\ IF df.rows = <<>>
       THEN out' = df /\ pc' = "process_done" /\ cursor' = cursor
       ELSE /\ out' = initialize_columns(years_to_track, df)
            /\ cursor' = 1
            /\ pc' = "process_loop"
    /\ UNCHANGED <<years_to_track, row, resolved, allocations, clamped_allocations,
                   spread_start, spread_stop, result, df>>
    /\ UNCHANGED <<projection_vars, typologie_vars, fetch_vars>>

\* The round with a result dict that is kept from call to call and whose
\* columns are not reset.
ProcessRow_accumulating_result ==
    /\ pc = "process_loop"
    /\ cursor <= Len(out.rows)
    /\ \E f \in {calculate_revenue_frame(years_to_track, out.rows[cursor].row)} :
         \E kept \in {[f.result EXCEPT !.cols =
                          [c \in DOMAIN f.result.cols |->
                              RatAdd(result.cols[c], f.result.cols[c])]]} :
           /\ row' = out.rows[cursor].row
           /\ allocations' = f.allocations
           /\ clamped_allocations' = f.clamped_allocations
           /\ spread_start' = f.effective_start
           /\ spread_stop' = f.effective_stop
           /\ IF f.raised
              THEN pc' = "raised" /\ UNCHANGED <<result, out, cursor>>
              ELSE /\ result' = kept
                   /\ out' = set_at(out, out.rows[cursor].label, kept)
                   /\ cursor' = cursor + 1
                   /\ pc' = pc
    /\ UNCHANGED <<years_to_track, resolved, df>>
    /\ UNCHANGED <<projection_vars, typologie_vars, fetch_vars>>

\* One round of "for index, row in df.iterrows()": calculate_revenue on the
\* row, then the assignment of its result under the row's label.
ProcessRow ==
    /\ pc = "process_loop"
    /\ cursor <= Len(out.rows)
    /\ \E f \in {calculate_revenue_frame(years_to_track, out.rows[cursor].row)} :
           /\ row' = out.rows[cursor].row
           /\ allocations' = f.allocations
           /\ clamped_allocations' = f.clamped_allocations
           /\ spread_start' = f.effective_start
           /\ spread_stop' = f.effective_stop
           /\ IF f.raised
              THEN pc' = "raised" /\ UNCHANGED <<result, out, cursor>>
              ELSE /\ result' = f.result
                   /\ out' = set_at(out, out.rows[cursor].label, f.result)
                   /\ cursor' = cursor + 1
                   /\ pc' = pc
    /\ UNCHANGED <<years_to_track, resolved, df>>
    /\ UNCHANGED <<projection_vars, typologie_vars, fetch_vars>>

\* "return df" after the last row
ProcessReturn ==
    /\ pc = "process_loop"
    /\ cursor > Len(out.rows)
    /\ pc' = "process_done"
    /\ UNCHANGED <<years_to_track, row, resolved, allocations, clamped_allocations,
                   spread_start, spread_stop, result>>
    /\ UNCHANGED <<process_vars, projection_vars, typologie_vars, fetch_vars>>

ProcessNext == ProcessBegin \/ ProcessRow \/ ProcessReturn

ProcessSpec == ProcessInit /\ [][ProcessNext]_vars

(***************************************************************************)
(* TravauxProjectionGenerator (src/src/processing/travaux_projection.py)   *)
(*                                                                         *)
(* Instants are counted in hours: the proleptic Gregorian ordinal of the   *)
(* day times 24, plus the hour of the day.                                 *)
(***************************************************************************)
STATUS_WAITING ==
    {"brief", "en cours", "envoyée(s) attente réponse", "envoyée(s) en attente de réponse"}
TRAVAUX_PROJECTION_PROBABILITY_THRESHOLD == 50
TRAVAUX_PROJECTION_START_WINDOW == 120

\* Days of the months of year y before month m.
RECURSIVE DaysBeforeMonth(_, _)
DaysBeforeMonth(y, m) ==
    IF m = 1 THEN 0 ELSE DaysBeforeMonth(y, m - 1) + DaysInMonth(y, m - 1)

\* date.toordinal()
toordinal(t) ==
    LET p == t.y - 1
    IN  365 * p + (p \div 4) - (p \div 100) + (p \div 400) + DaysBeforeMonth(t.y, t.m) + t.d

\* pd.Timestamp of a day at an hour, as an instant
Instant(t, hour) == toordinal(t) * 24 + hour

\* self.today + timedelta(days=...)
timedelta_days(days) == days * 24

\* _matches_criteria(row) for a generator built at instant now
matches_criteria(now, end, r) ==
    IF r.final_bu # "TRAVAUX" THEN FALSE
    ELSE IF r.statut_clean \notin STATUS_WAITING THEN FALSE
    ELSE IF r.probability < TRAVAUX_PROJECTION_PROBABILITY_THRESHOLD THEN FALSE
    ELSE LET date_in_window ==
                 IF ~isna(r.date)
                 THEN now <= Instant(r.date, 0) /\ Instant(r.date, 0) <= end
                 ELSE FALSE
             start_in_window ==
                 IF ~isna(r.projet_start)
                 THEN now <= Instant(r.projet_start, 0) /\ Instant(r.projet_start, 0) <= end
                 ELSE FALSE
         IN  IF ~(date_in_window \/ start_in_window) THEN FALSE ELSE TRUE

\* reference_date: the day of the tests at midnight, and the same day in
\* the morning (datetime.now() carries the time of day).
ReferenceDay == Timestamp(2026, 1, 15)
ReferenceDates == {Instant(ReferenceDay, 0), Instant(ReferenceDay, 9)}

\* Dates of the proposals: missing, before the reference day, on it, 120
\* and 121 days after it, the dates of the tests, 365 and 366 days after it.
ProjectionDates ==
    {NaT, Timestamp(2025, 12, 1), ReferenceDay, Timestamp(2026, 5, 15),
     Timestamp(2026, 5, 16), Timestamp(2026, 8, 1), Timestamp(2027, 1, 15),
     Timestamp(2027, 1, 16), Timestamp(2027, 2, 20)}

ProjectionRows ==
    [final_bu : {"TRAVAUX", "MAINTENANCE"}, statut_clean : {"en cours", "signé"},
     probability : {40, 50, 60}, date : ProjectionDates, projet_start : ProjectionDates]

\* TravauxProjectionGenerator.__init__(reference_date)
ProjectionInit ==
    /\ EngineInit({TrackableYears}, ProjectionRows)
    /\ today \in ReferenceDates
    /\ window_end = today + timedelta_days(TRAVAUX_PROJECTION_START_WINDOW)
    /\ matched = FALSE
    /\ ProcessIdle /\ TypologieIdle /\ FetchIdle

\* generator._matches_criteria(row)
MatchesCriteria ==
    /\ pc = "start"
    /\ matched' = matches_criteria(today, window_end, row)
    /\ pc' = "matched"
    /\ UNCHANGED <<years_to_track, row, resolved, allocations, clamped_allocations,
                   spread_start, spread_stop, result, today, window_end>>
    /\ UNCHANGED <<process_vars, typologie_vars, fetch_vars>>

ProjectionNext == MatchesCriteria

ProjectionSpec == ProjectionInit /\ [][ProjectionNext]_vars

(***************************************************************************)
(* Typologie allocation (src/src/processing/typologie_allocation.py)       *)
(*                                                                         *)
(* A string is the sequence of its characters, so that upper(), strip(),   *)
(* split(','), the substring test and the regular expression \bTS\b are    *)
(* computed character by character.                                        *)
(***************************************************************************)
LowerCase ==
    <<"a", "b", "c", "d", "e", "f", "g", "h", "i", "j", "k", "l", "m",
      "n", "o", "p", "q", "r", "s", "t", "u", "v", "w", "x", "y", "z",
      "é">>
UpperCase ==
    <<"A", "B", "C", "D", "E", "F", "G", "H", "I", "J", "K", "L", "M",
      "N", "O", "P", "Q", "R", "S", "T", "U", "V", "W", "X", "Y", "Z",
      "É">>
Digits == {"0", "1", "2", "3", "4", "5", "6", "7", "8", "9"}

\* str.upper() and str.lower()
upper(str) ==
    [i \in DOMAIN str |->
        IF \E k \in DOMAIN LowerCase : LowerCase[k] = str[i]
        THEN UpperCase[CHOOSE k \in DOMAIN LowerCase : LowerCase[k] = str[i]]
        ELSE str[i]]
lower(str) ==
    [i \in DOMAIN str |->
        IF \E k \in DOMAIN UpperCase : UpperCase[k] = str[i]
        THEN LowerCase[CHOOSE k \in DOMAIN UpperCase : UpperCase[k] = str[i]]
        ELSE str[i]]

\* sub in str
contains(str, sub) ==
    \E i \in 0..(Len(str) - Len(sub)) : SubSeq(str, i + 1, i + Len(sub)) = sub

\* str.strip()
RECURSIVE lstrip(_)
lstrip(str) == IF str # <<>> /\ Head(str) = " " THEN lstrip(Tail(str)) ELSE str
RECURSIVE rstrip(_)
rstrip(str) ==
    IF str # <<>> /\ str[Len(str)] = " " THEN rstrip(SubSeq(str, 1, Len(str) - 1)) ELSE str
strip(str) == rstrip(lstrip(str))

\* str.split(',')
RECURSIVE split(_, _)
split(str, piece) ==
    IF str = <<>> THEN <<piece>>
    ELSE IF Head(str) = "," THEN <<piece>> \o split(Tail(str), <<>>)
    ELSE split(Tail(str), Append(piece, Head(str)))

str_nan == <<"n", "a", "n">>
str_none == <<"n", "o", "n", "e">>
str_non_defini_accent == <<"n", "o", "n", " ", "d", "é", "f", "i", "n", "i">>
str_non_defini == <<"n", "o", "n", " ", "d", "e", "f", "i", "n", "i">>
str_TS == <<"T", "S">>
str_MAINTENANCE_TS == <<"M", "A", "I", "N", "T", "E", "N", "A", "N", "C", "E", " ", "T", "S">>
str_Maintenance_TS == <<"M", "a", "i", "n", "t", "e", "n", "a", "n", "c", "e", " ", "T", "S">>
str_paren_TS == <<"(", "T", "S", ")">>
str_ANIMATION == <<"A", "N", "I", "M", "A", "T", "I", "O", "N">>
str_MAINTENANCE_ANIMATION == <<"M", "A", "I", "N", "T", "E", "N", "A", "N", "C", "E", " ", "A", "N", "I", "M", "A", "T", "I", "O", "N">>

\* parse_typologie_list(raw) for raw None (or NaN) and for raw a string
parse_typologie_list(raw) ==
    IF raw = None THEN <<>>
    ELSE LET raw_str == strip(raw[1])
         IN  IF raw_str = <<>>
                    \/ lower(raw_str) \in {str_nan, str_none, str_non_defini_accent, str_non_defini}
             THEN <<>>
             ELSE LET pieces == IF contains(raw_str, <<",">>)
                                THEN LET parts == split(raw_str, <<>>)
                                     IN  [i \in DOMAIN parts |-> strip(parts[i])]
                                ELSE <<raw_str>>
                      keep(t) == t # <<>> /\ lower(t) # str_nan
                  IN  SelectSeq(pieces, keep)

\* \w of the regular expressions, on upper-cased text
word_character(c) == c \in Range(UpperCase) \cup Range(LowerCase) \cup Digits \cup {"_"}

\* re.search(r'\bTS\b', title_str)
search_word_TS(title_str) ==
    \E i \in 1..(Len(title_str) - 1) :
        /\ title_str[i] = "T" /\ title_str[i + 1] = "S"
        /\ (i = 1 \/ ~word_character(title_str[i - 1]))
        /\ (i + 1 = Len(title_str) \/ ~word_character(title_str[i + 2]))

\* title_has_ts(title)
title_has_ts(t) ==
    IF t = None THEN FALSE
    ELSE LET title_str == upper(t[1])
         IN  search_word_TS(title_str) \/ contains(title_str, str_paren_TS)

\* tag.upper() == '<<"T", "S">>' or tag.upper() == 'MAINTENANCE <<"T", "S">>' or '<<"T", "S">>' in tag.upper()
is_ts_tag(tag) ==
    \/ upper(tag) = str_TS
    \/ upper(tag) = str_MAINTENANCE_TS
    \/ contains(upper(tag), str_TS)

\* detect_ts(tags, title)
detect_ts(list, t) == (\E i \in DOMAIN list : is_ts_tag(list[i])) \/ title_has_ts(t)

\* inject_ts_tag appending the former tag '<<"T", "S">>'
inject_ts_tag_appending_TS(list, t) ==
    LET has_ts_tag == \E i \in DOMAIN list : is_ts_tag(list[i])
    IN  IF title_has_ts(t) /\ ~has_ts_tag THEN Append(list, str_TS) ELSE list

\* inject_ts_tag(tags, title): the result is a copy of the list
inject_ts_tag(list, t) ==
    LET has_ts_tag == \E i \in DOMAIN list : is_ts_tag(list[i])
    IN  IF title_has_ts(t) /\ ~has_ts_tag THEN Append(list, str_Maintenance_TS) ELSE list

\* tag_upper == 'ANIMATION' or tag_upper == 'MAINTENANCE ANIMATION' or
\* 'ANIMATION' in tag_upper
is_animation_tag(tag) ==
    \/ upper(tag) = str_ANIMATION
    \/ upper(tag) = str_MAINTENANCE_ANIMATION
    \/ contains(upper(tag), str_ANIMATION)

\* The tag at which "for tag in tags" first meets a TS tag.
first_ts_tag(list) ==
    list[CHOOSE i \in DOMAIN list :
             is_ts_tag(list[i]) /\ \A j \in 1..(i - 1) : ~is_ts_tag(list[j])]

\* The tag at which "for tag in tags" first meets a tag other than animation.
first_non_animation_tag(list) ==
    list[CHOOSE i \in DOMAIN list :
             ~is_animation_tag(list[i]) /\ \A j \in 1..(i - 1) : is_animation_tag(list[j])]

\* choose_primary_typologie(tags)
choose_primary_typologie(list) ==
    IF list = <<>> THEN None
    ELSE IF \E i \in DOMAIN list : is_ts_tag(list[i])
    THEN LET tag == first_ts_tag(list)
         IN  IF upper(tag) = str_TS THEN Some(str_Maintenance_TS) ELSE Some(tag)
    ELSE IF Len(list) > 1
    THEN IF \E i \in DOMAIN list : ~is_animation_tag(list[i])
         THEN Some(first_non_animation_tag(list))
         ELSE Some(list[1])
    ELSE Some(list[1])

\* The tags of the list, each kept at its first occurrence, compared in
\* upper case.
RECURSIVE deduplicate(_, _)
deduplicate(list, seen) ==
    IF list = <<>> THEN <<>>
    ELSE IF upper(Head(list)) \in seen THEN deduplicate(Tail(list), seen)
    ELSE <<Head(list)>> \o deduplicate(Tail(list), seen \cup {upper(Head(list))})

\* allocate_typologie_for_row(row): (tags_for_count, primary_for_amount)
allocate_typologie_for_row(r) ==
    LET parsed == parse_typologie_list(r.cf_typologie_de_devis)
        with_ts == inject_ts_tag(parsed, r.title)
        primary == choose_primary_typologie(with_ts)
    IN  <<deduplicate(with_ts, {}), primary>>

\* The tags of the rows: the former and the present <<"T", "S">> tag, a tag in lower
\* case, a tag that only contains the letters, and the animation tag.
Typologies ==
    {str_TS, <<"t", "s">>, str_Maintenance_TS, <<"D", "V">>, <<"L", "o", "t", "s">>, <<"A", "n", "i", "m", "a", "t", "i", "o", "n">>}
MaxTags == 2
TagLists == UNION {[1..n -> Typologies] : n \in 0..MaxTags}

Titles ==
    {None, Some(<<>>), Some(<<"P", "r", "o", "j", "e", "c", "t", " ", "T", "S">>), Some(<<"P", "r", "o", "j", "e", "c", "t", " ", "(", "t", "s", ")">>), Some(<<"P", "r", "o", "j", "e", "c", "t">>), Some(<<"L", "o", "t", "s">>), Some(<<"T", "S", "-", "1">>)}

\* ', '.join(tags)
RECURSIVE join(_)
join(list) ==
    IF list = <<>> THEN <<>>
    ELSE IF Len(list) = 1 THEN list[1]
    ELSE list[1] \o <<",", " ">> \o join(Tail(list))

\* Values of the column cf_typologie_de_devis beside the joined tags.
UndefinedTypologies ==
    {None, Some(<<"n", "a", "n">>), Some(<<"N", "o", "n", " ", "d", "é", "f", "i", "n", "i">>), Some(<<"D", "V", ",", " ", ",", "d", "v", " ">>)}

\* A list of tags and a title for inject_ts_tag; a row, with the same title,
\* for allocate_typologie_for_row.
TypologieInit ==
    /\ tags \in TagLists
    /\ title \in Titles
    /\ EngineInit({TrackableYears},
                  {[cf_typologie_de_devis |-> raw, title |-> title] :
                       raw \in {Some(join(tags))} \cup UndefinedTypologies})
    /\ injected = <<>> /\ tags_for_count = <<>> /\ primary_for_amount = None
    /\ ProcessIdle /\ ProjectionIdle /\ FetchIdle

\* inject_ts_tag(tags, title)
InjectTsTag ==
    /\ pc = "start"
    /\ injected' = inject_ts_tag(tags, title)
    /\ pc' = "injected"
    /\ UNCHANGED <<tags, title, tags_for_count, primary_for_amount>>
    /\ UNCHANGED <<years_to_track, row, resolved, allocations, clamped_allocations,
                   spread_start, spread_stop, result>>
    /\ UNCHANGED <<process_vars, projection_vars, fetch_vars>>

\* allocate_typologie_for_row(row)
AllocateTypologieForRow ==
    /\ pc = "start"
    /\ \E allocation \in {allocate_typologie_for_row(row)} :
           /\ tags_for_count' = allocation[1]
           /\ primary_for_amount' = allocation[2]
    /\ pc' = "allocated"
    /\ UNCHANGED <<tags, title, injected>>
    /\ UNCHANGED <<years_to_track, row, resolved, allocations, clamped_allocations,
                   spread_start, spread_stop, result>>
    /\ UNCHANGED <<process_vars, projection_vars, fetch_vars>>

TypologieNext == InjectTsTag \/ AllocateTypologieForRow

TypologieSpec == TypologieInit /\ [][TypologieNext]_vars

(***************************************************************************)
(* ProposalsClient.fetch_all (src/src/api/proposals.py)                    *)
(***************************************************************************)
\* settings.proposals_page_limit, scaled down
page_limit == 2
MaxProposals == 8

\* The 'meta' of the responses: absent, or carrying the total count under
\* one of its two keys.
Metas == {"absent", "totalElements", "totalElementsWithFilters"}

\* A server holding the proposals 1..n, answering with or without success.
Servers ==
    [proposals : {[i \in 1..n |-> i] : n \in 0..MaxProposals},
     meta : Metas, success : BOOLEAN]

\* The response to the query with limit page_limit at the given offset.
fetch_page(srv, at) ==
    [success |-> srv.success,
     Proposal |-> SubSeq(srv.proposals, at + 1, min(<<at + page_limit, Len(srv.proposals)>>)),
     meta |-> srv.meta,
     total |-> Len(srv.proposals)]

\* meta.get("totalElementsWithFilters", meta.get("totalElements", 0))
total_elements(response) ==
    IF response.meta = "absent" THEN 0 ELSE response.total

\* fetch_all before its first request
FetchInit ==
    /\ EngineInit({TrackableYears}, {IdleRow})
    /\ server \in Servers
    /\ offset = 0
    /\ all_proposals = <<>>
    /\ ProcessIdle /\ ProjectionIdle /\ TypologieIdle

\* One iteration of the loop of fetch_all.
FetchPage ==
    /\ pc \in {"start", "fetching"}
    /\ \E response \in {fetch_page(server, offset)} :
           IF ~response.success
           THEN pc' = "raised" /\ UNCHANGED <<offset, all_proposals>>
           ELSE IF response.Proposal = <<>>
           THEN pc' = "fetch_done" /\ UNCHANGED <<offset, all_proposals>>
           ELSE /\ all_proposals' = all_proposals \o response.Proposal
                /\ IF Len(all_proposals') >= total_elements(response)
                   THEN pc' = "fetch_done" /\ UNCHANGED offset
                   ELSE pc' = "fetching" /\ offset' = offset + page_limit
    /\ UNCHANGED server
    /\ UNCHANGED <<years_to_track, row, resolved, allocations, clamped_allocations,
                   spread_start, spread_stop, result>>
    /\ UNCHANGED <<process_vars, projection_vars, typologie_vars>>

FetchNext == FetchPage

\* fetch_all runs its loop to the end: nothing suspends it between requests.
FetchSpec == FetchInit /\ [][FetchNext]_vars /\ WF_vars(FetchPage)

(***************************************************************************)
(* Properties                                                              *)
(***************************************************************************)
Returned == pc = "done"
ResolverReturned == pc = "resolved"

TrackedYears == Range(years_to_track)
Column(kind, q, year) == result.cols[Col(kind, q, year)]

\* Sum over the tracked years of the annual column of a kind.
RECURSIVE SumAnnual(_, _)
SumAnnual(kind, i) ==
    IF i > Len(years_to_track) THEN Zero
    ELSE RatAdd(Column(kind, 0, years_to_track[i]), SumAnnual(kind, i + 1))

AllColumnsZero == \A c \in DOMAIN result.cols : result.cols[c].n = 0

StartPresent == ~isna(row.projet_start)
StopPresent == ~isna(row.projet_stop)
ProposalPresent == ~isna(row.date)
\* both project dates present and start <= stop
CleanDates == StartPresent /\ StopPresent /\ DateLE(row.projet_start, row.projet_stop)
\* both project dates present and start > stop
InconsistentDates == StartPresent /\ StopPresent /\ DateLT(row.projet_stop, row.projet_start)
OnlyStartMissing == ~StartPresent /\ StopPresent
OnlyStopMissing == StartPresent /\ ~StopPresent
Duration(bu) == IF bu = "MAINTENANCE" THEN 11 ELSE 5

\* C1: for a row with amount > 0 whose effective start resolves to a date,
\* the annual totals of calculate_revenue's result, summed over the tracked
\* years, equal the amount, for every list of tracked years (with or
\* without gaps).
C1_ConservationUnderClamping ==
    (Returned /\ row.amount > 0 /\ ~isna(result.dates_effective_start))
        => RatEq(SumAnnual("Total", 1), FromInt(row.amount))

\* C2: in every result of calculate_revenue and for every tracked year, the
\* annual column equals the sum of the four quarter columns of that year,
\* for the totals and for the weighted amounts.
C2_QuarterYearCoherence ==
    Returned =>
        \A year \in TrackedYears : \A kind \in {"Total", "Pondere"} :
            RatEq(Column(kind, 0, year),
                  RatAdd(RatAdd(Column(kind, 1, year), Column(kind, 2, year)),
                         RatAdd(Column(kind, 3, year), Column(kind, 4, year))))

\* a result in which one year received amount in Q1 and in Q4, part of it
\* relocated by clamping
C2_Witness ==
    /\ Returned
    /\ \E i \in DOMAIN allocations : allocations[i] # clamped_allocations[i]
    /\ \E year \in TrackedYears :
          Column("Total", 1, year).n > 0 /\ Column("Total", 4, year).n > 0

\* C3: a fragment with year < first_year is moved to (first_year, 1), one
\* with year > last_year to (last_year, 12), any other keeps its year and
\* month; the amount never changes; every clamped fragment lies in
\* first_year..last_year; a row lying wholly before the window lands in Q1
\* of the first tracked year and one wholly after it in Q4 of the last.
C3_ClampingRule ==
    Returned =>
        LET first_year == years_to_track[1]
            last_year == years_to_track[Len(years_to_track)]
            n == Len(allocations)
        IN  /\ Len(clamped_allocations) = n
            /\ \A i \in 1..n :
                  LET a == allocations[i]
                      c == clamped_allocations[i]
                  IN  /\ c.amount = a.amount
                      /\ first_year <= c.year /\ c.year <= last_year
                      /\ a.year < first_year => (c.year = first_year /\ c.month = 1)
                      /\ a.year > last_year => (c.year = last_year /\ c.month = 12)
                      /\ (first_year <= a.year /\ a.year <= last_year)
                            => (c.year = a.year /\ c.month = a.month)
            /\ (n > 0 /\ \A i \in 1..n : allocations[i].year < first_year)
                  => RatEq(Column("Total", 1, first_year), FromInt(row.amount))
            /\ (n > 0 /\ \A i \in 1..n : allocations[i].year > last_year)
                  => RatEq(Column("Total", 4, last_year), FromInt(row.amount))

\* one row with fragments before, inside and after the tracked window
C3_Witness ==
    /\ Returned
    /\ \E i \in DOMAIN allocations : allocations[i].year < years_to_track[1]
    /\ \E i \in DOMAIN allocations : allocations[i].year \in TrackedYears
    /\ \E i \in DOMAIN allocations :
          allocations[i].year > years_to_track[Len(years_to_track)]

\* C4: with project_start present and project_stop missing the resolver
\* returns start and start + 11 months (MAINTENANCE), start + 5 months
\* (TRAVAUX, AUTRE) or no stop with rule_applied false (CONCEPTION), for
\* every proposal_date including a missing one; such a row is never
\* 'missing_all_dates' and, when its amount is positive, calculate_revenue
\* spreads it into fragments.
C4_OnlyStopMissing ==
    /\ (ResolverReturned /\ OnlyStopMissing) =>
          /\ resolved.rule_name # "missing_all_dates"
          /\ resolved.effective_start = row.projet_start
          /\ resolved.effective_stop =
                IF row.final_bu = "CONCEPTION" THEN NaT
                ELSE DateOffsetMonths(row.projet_start, Duration(row.final_bu))
          /\ row.final_bu = "CONCEPTION" => ~resolved.rule_applied
    /\ (Returned /\ OnlyStopMissing /\ row.amount > 0) => allocations # <<>>

\* C5: with project_start missing, project_stop and proposal_date present,
\* the resolver returns (stop - 11 months, stop) for MAINTENANCE,
\* (proposal_date, stop) for TRAVAUX and AUTRE, (proposal_date, NaT) for
\* CONCEPTION, with rule_applied true.
C5_OnlyStartMissing ==
    (ResolverReturned /\ OnlyStartMissing /\ ProposalPresent) =>
        /\ resolved.rule_applied
        /\ resolved.effective_start =
              IF row.final_bu = "MAINTENANCE"
              THEN DateOffsetMonths(row.projet_stop, -11) ELSE row.date
        /\ resolved.effective_stop =
              IF row.final_bu = "CONCEPTION" THEN NaT ELSE row.projet_stop

\* MAINTENANCE, the stop on a 31st: the derived start is clipped to the end
\* of February
C5_Witness ==
    /\ ResolverReturned /\ OnlyStartMissing /\ ProposalPresent
    /\ row.final_bu = "MAINTENANCE"
    /\ row.projet_stop.d = 31
    /\ resolved.effective_start.m = 2

\* C6: for a row with both project dates present and start > stop, the
\* resolver returns exactly what it returns for the same row with both
\* project dates absent: proposal_date anchors the window (+11 months
\* MAINTENANCE, +5 months TRAVAUX and AUTRE, no stop CONCEPTION) and the
\* original start and stop are ignored.
C6_InconsistentDemoted ==
    (ResolverReturned /\ InconsistentDates) =>
        /\ resolved = compute_effective_dates(
                          [row EXCEPT !.projet_start = NaT, !.projet_stop = NaT])
        /\ ProposalPresent =>
              /\ resolved.effective_start = row.date
              /\ resolved.effective_stop =
                    IF row.final_bu = "CONCEPTION" THEN NaT
                    ELSE DateOffsetMonths(row.date, Duration(row.final_bu))
              /\ resolved.rule_applied

\* start > stop with a proposal date, for CONCEPTION
C6_Witness ==
    /\ ResolverReturned /\ InconsistentDates /\ ProposalPresent
    /\ row.final_bu = "CONCEPTION"
    /\ resolved.effective_start = row.date

C8_RuleAppliedOriginal ==
    ResolverReturned =>
        (~resolved.rule_applied
            <=> (CleanDates \/ (row.final_bu = "CONCEPTION" /\ OnlyStopMissing)))

\* C8 as amended: rule_applied is false in the clean case, in the
\* CONCEPTION only-stop-missing case and in the failure outcome
\* 'missing_all_dates'; every other outcome returns rule_applied = true.
C8_RuleAppliedFlag ==
    ResolverReturned =>
        (~resolved.rule_applied
            <=> \/ CleanDates
                \/ row.final_bu = "CONCEPTION" /\ OnlyStopMissing
                \/ resolved.rule_name = "missing_all_dates")

\* the failure outcome of a row with no date at all
C8_Witness ==
    /\ ResolverReturned
    /\ ~StartPresent /\ ~StopPresent /\ ~ProposalPresent
    /\ resolved.rule_name = "missing_all_dates"
    /\ ~resolved.rule_applied

\* C9: with both project dates present and start <= stop the resolver
\* returns (project_start, project_stop, false, 'none') for every business
\* unit and every proposal_date, and calculate_revenue spreads over those
\* dates unchanged.
C9_CleanPassthrough ==
    CleanDates =>
        /\ ResolverReturned =>
              resolved = Resolved(row.projet_start, row.projet_stop, FALSE, "none")
        /\ (Returned /\ row.amount # 0) =>
              /\ spread_start = row.projet_start
              /\ spread_stop = row.projet_stop
              /\ result.dates_effective_start = row.projet_start
              /\ result.dates_effective_stop = row.projet_stop
              /\ ~result.dates_rule_applied
              /\ result.dates_rule = "none"

\* a one-day project (start = stop) without proposal date, spread
C9_Witness ==
    /\ Returned /\ row.amount # 0
    /\ CleanDates /\ row.projet_start = row.projet_stop /\ ~ProposalPresent
    /\ allocations # <<>>

\* C10: for amount = 0 every total and weighted column is 0 and the four
\* diagnostic fields are what the resolver produces for the row.
C10_ZeroAmountOriginal ==
    (Returned /\ row.amount = 0) =>
        /\ AllColumnsZero
        /\ Resolved(result.dates_effective_start, result.dates_effective_stop,
                    result.dates_rule_applied, result.dates_rule)
              = compute_effective_dates(row)

\* C10 as amended: for amount = 0 every total and weighted column is 0 and
\* the four diagnostic fields keep their defaults (false, 'none', NaT, NaT),
\* whatever the resolver produces for the row.
C10_ZeroAmount ==
    (Returned /\ row.amount = 0) =>
        /\ AllColumnsZero
        /\ DOMAIN result.cols = get_financial_columns(years_to_track)
        /\ ~result.dates_rule_applied
        /\ result.dates_rule = "none"
        /\ isna(result.dates_effective_start)
        /\ isna(result.dates_effective_stop)

\* a zero-amount row for which the resolver applies a rule
C10_Witness ==
    /\ Returned /\ row.amount = 0
    /\ OnlyStopMissing /\ ProposalPresent /\ row.final_bu = "TRAVAUX"
    /\ result.dates_rule = "none"

\* C11: when calculate_revenue runs on a non-CONCEPTION row for which the
\* resolver returns a start and a stop that is NaT or earlier than the
\* start, the whole amount is one fragment in the calendar month of the
\* effective start, that fragment is then clamped, and the reported
\* dates_rule is the resolver's rule name followed by '_fallback_1month'.
C11_OneMonthFallback ==
    (Returned /\ row.amount # 0 /\ row.final_bu # "CONCEPTION") =>
        LET eff == compute_effective_dates(row)
            start == eff.effective_start
            stop == eff.effective_stop
            first_year == years_to_track[1]
            last_year == years_to_track[Len(years_to_track)]
        IN  (~isna(start) /\ (isna(stop) \/ DateLT(stop, start))) =>
                /\ spread_start = start /\ spread_stop = start
                /\ allocations = <<RevenueAllocation(start.y, start.m, FromInt(row.amount))>>
                /\ Len(clamped_allocations) = 1
                /\ clamped_allocations[1] =
                      IF start.y < first_year
                      THEN RevenueAllocation(first_year, 1, FromInt(row.amount))
                      ELSE IF start.y > last_year
                      THEN RevenueAllocation(last_year, 12, FromInt(row.amount))
                      ELSE allocations[1]
                /\ result.dates_rule = eff.rule_name \o "_fallback_1month"
                /\ result.dates_rule_applied

\* an AUTRE row whose proposal date lies after its stop, the single fragment
\* relocated by clamping
C11_Witness ==
    /\ Returned /\ row.amount # 0 /\ row.final_bu = "AUTRE"
    /\ OnlyStartMissing /\ DateLT(row.projet_stop, row.date)
    /\ result.dates_rule = "rule1_start_missing_default_fallback_1month"
    /\ Len(allocations) = 1
    /\ allocations[1] # clamped_allocations[1]

\* The calendar month k months after the month of date t.
MonthAt(t, k) ==
    LET total == t.y * 12 + (t.m - 1) + k
    IN  [year |-> total \div 12, month |-> (total % 12) + 1]

\* The fragments lo..hi of allocs lie in consecutive calendar months, the
\* first of them k months after the month of t, each of amount monthly.
FragmentsAt(allocs, lo, hi, t, k, monthly) ==
    \A i \in lo..hi :
        /\ allocs[i].year = MonthAt(t, k + (i - lo)).year
        /\ allocs[i].month = MonthAt(t, k + (i - lo)).month
        /\ RatEq(allocs[i].amount, monthly)

\* Sum of the amounts of the fragments i..Len(allocs).
RECURSIVE SumFragments(_, _)
SumFragments(allocs, i) ==
    IF i > Len(allocs) THEN Zero
    ELSE RatAdd(allocs[i].amount, SumFragments(allocs, i + 1))

\* Number of calendar months from the month of a through the month of b.
MonthSpan(a, b) == 12 * (b.y - a.y) + (b.m - a.m) + 1

\* C12: for start <= stop, _spread_maintenance returns one fragment for each
\* calendar month from start's month through stop's month, that is
\* 12*(stop.year - start.year) + (stop.month - start.month) + 1 fragments,
\* each of amount/count, whatever the days of start and stop.
C12_MaintenanceEvenSpread ==
    (pc = "spread_maintenance" /\ StopPresent /\ DateLE(row.projet_start, row.projet_stop)) =>
        LET count == MonthSpan(row.projet_start, row.projet_stop)
        IN  /\ Len(allocations) = count
            /\ FragmentsAt(allocations, 1, count, row.projet_start, 0, Rat(row.amount, count))
            /\ RatEq(SumFragments(allocations, 1), FromInt(row.amount))

\* day 20 of a month to day 19 of the month two later: three fragments
C12_Witness ==
    /\ pc = "spread_maintenance"
    /\ row.projet_start.d = 20 /\ row.projet_stop.d = 19
    /\ row.projet_stop.y = row.projet_start.y
    /\ row.projet_stop.m = row.projet_start.m + 2
    /\ Len(allocations) = 3

C14_ConceptionMedium ==
    (pc = "spread_conception"
        /\ CONCEPTION_THRESHOLD_LOW <= row.amount
        /\ row.amount <= CONCEPTION_THRESHOLD_HIGH) =>
        /\ Len(allocations) = 12
        /\ FragmentsAt(allocations, 1, 6, row.projet_start, 0, Rat(3 * row.amount, 5 * 6))
        /\ FragmentsAt(allocations, 7, 12, row.projet_start, 12, Rat(2 * row.amount, 5 * 6))
        /\ RatEq(SumFragments(allocations, 1), FromInt(row.amount))

\* an amount of exactly the high threshold, started on a 31st
C14_Witness ==
    /\ pc = "spread_conception"
    /\ row.amount = CONCEPTION_THRESHOLD_HIGH
    /\ row.projet_start.d = 31
    /\ Len(allocations) = 12

\* C15: for amount > 30000, _spread_conception returns 24 fragments: twelve
\* of 0.40*amount/12 in the months at offsets 0..11 from the start's month
\* and twelve of 0.60*amount/12 at offsets 18..29, none in between; they sum
\* to the amount.
C15_ConceptionLarge ==
    (pc = "spread_conception" /\ row.amount > CONCEPTION_THRESHOLD_HIGH) =>
        /\ Len(allocations) = 24
        /\ FragmentsAt(allocations, 1, 12, row.projet_start, 0, Rat(2 * row.amount, 5 * 12))
        /\ FragmentsAt(allocations, 13, 24, row.projet_start, 18, Rat(3 * row.amount, 5 * 12))
        /\ RatEq(SumFragments(allocations, 1), FromInt(row.amount))

\* the smallest large amount, started on a leap day
C15_Witness ==
    /\ pc = "spread_conception"
    /\ row.amount = CONCEPTION_THRESHOLD_HIGH + 1
    /\ row.projet_start.m = 2 /\ row.projet_start.d = 29
    /\ Len(allocations) = 24

\* C16: for 0 < amount < 15000, _spread_conception returns three fragments of
\* amount/3 in the three consecutive calendar months that begin with the
\* start's month, whatever the day of the start and with or without a stop
\* date.
C16_ConceptionSmall ==
    (pc = "spread_conception" /\ 0 < row.amount /\ row.amount < CONCEPTION_THRESHOLD_LOW) =>
        /\ Len(allocations) = 3
        /\ FragmentsAt(allocations, 1, 3, row.projet_start, 0, Rat(row.amount, 3))
        /\ RatEq(SumFragments(allocations, 1), FromInt(row.amount))

\* the largest small amount, started on January 31st, no stop date: the
\* fragments lie in January, February and March
C16_Witness ==
    /\ pc = "spread_conception"
    /\ row.amount = CONCEPTION_THRESHOLD_LOW - 1
    /\ row.projet_start.m = 1 /\ row.projet_start.d = 31
    /\ ~StopPresent
    /\ Len(allocations) = 3
    /\ allocations[2].month = 2 /\ allocations[3].month = 3

\* C17: in every result of calculate_revenue, for every tracked year and
\* for the annual column and each quarter column of that year, the weighted
\* amount equals the total times the row's probability_factor (exact
\* arithmetic).
C17_WeightedProportionality ==
    Returned =>
        \A year \in TrackedYears : \A q \in 0..4 :
            RatEq(Column("Pondere", q, year),
                  RatMul(Column("Total", q, year), row.probability_factor))

\* a row weighted by one half whose fragments fall in two quarters of a year
C17_Witness ==
    /\ Returned
    /\ row.probability_factor = Rat(1, 2)
    /\ \E year \in TrackedYears :
          /\ Column("Total", 1, year).n > 0 /\ Column("Total", 4, year).n > 0
          /\ Column("Pondere", 0, year).n > 0
          /\ ~RatEq(Column("Pondere", 0, year), Column("Total", 0, year))

\* C18: a row whose business unit is none of CONCEPTION, TRAVAUX and
\* MAINTENANCE (AUTRE, another string, no value) gets from the resolver and
\* from calculate_revenue the effective dates and the columns, per year and
\* per quarter, of the same row with business unit TRAVAUX; only the rule
\* name may differ; calculate_revenue does not raise.
C18_DefaultBucket ==
    (row.final_bu \notin {"CONCEPTION", "TRAVAUX", "MAINTENANCE"}) =>
        LET twin == [row EXCEPT !.final_bu = "TRAVAUX"]
        IN  /\ pc # "raised"
            /\ ResolverReturned =>
                  LET t == compute_effective_dates(twin)
                  IN  /\ resolved.effective_start = t.effective_start
                      /\ resolved.effective_stop = t.effective_stop
                      /\ resolved.rule_applied = t.rule_applied
            /\ Returned =>
                  LET t == calculate_revenue_frame(years_to_track, twin)
                  IN  /\ ~t.raised
                      /\ result.cols = t.result.cols
                      /\ result.dates_effective_start = t.result.dates_effective_start
                      /\ result.dates_effective_stop = t.result.dates_effective_stop
                      /\ result.dates_rule_applied = t.result.dates_rule_applied
                      /\ spread_start = t.effective_start
                      /\ spread_stop = t.effective_stop

\* a row without final_bu and without project dates, spread over six months
\* from its proposal date
C18_Witness ==
    /\ Returned /\ row.amount # 0
    /\ row.final_bu = NoValue
    /\ ~StartPresent /\ ~StopPresent /\ ProposalPresent
    /\ result.dates_rule = "rule3_both_missing_default"
    /\ Len(allocations) = 6

\* C19: on every return path of calculate_revenue the result holds, for
\* every tracked year, the annual total, the annual weighted amount and the
\* eight quarter columns, plus the four diagnostic fields, and nothing else:
\* no column of a year that is not tracked; a column no fragment of the row
\* is added to is 0.
C19_ColumnStability ==
    /\ pc # "raised"
    /\ Returned =>
          /\ DOMAIN result = {"cols", "dates_rule_applied", "dates_rule",
                              "dates_effective_start", "dates_effective_stop"}
          /\ DOMAIN result.cols =
                {Col(kind, q, year) : kind \in {"Total", "Pondere"}, q \in 0..4,
                                      year \in TrackedYears}
          /\ Cardinality(DOMAIN result.cols) = 10 * Len(years_to_track)
          /\ \A c \in DOMAIN result.cols :
                (\A i \in DOMAIN clamped_allocations :
                    ~(/\ clamped_allocations[i].year = c.year
                      /\ c.q \in {0, (clamped_allocations[i].month - 1) \div 3 + 1}))
                => result.cols[c].n = 0

\* an engine whose tracked years have a gap, a row that fills one tracked
\* year and leaves another at 0
C19_Witness ==
    /\ Returned
    /\ \E i \in DOMAIN years_to_track :
          i > 1 /\ years_to_track[i] > years_to_track[i - 1] + 1
    /\ \E y1, y2 \in TrackedYears :
          Column("Total", 0, y1).n > 0 /\ Column("Total", 0, y2).n = 0

\* C20: for every combination of present, missing and inconsistent project
\* and proposal dates, every business unit and every amount >= 0,
\* calculate_revenue ends by returning: fragments (a spread or the single
\* fragment of the 1-month fallback) when the amount is not 0 and a start
\* resolves, an all-zero result otherwise; it never ends by raising.
C20_NoFailureOnBadDates ==
    /\ pc # "raised"
    /\ Returned =>
          IF row.amount # 0 /\ ~isna(compute_effective_dates(row).effective_start)
          THEN /\ allocations # <<>>
               /\ Len(clamped_allocations) = Len(allocations)
               /\ needs_fallback(row.final_bu, result.dates_effective_start,
                                 result.dates_effective_stop)
                     => Len(allocations) = 1
          ELSE allocations = <<>> /\ AllColumnsZero

\* inconsistent project dates, resolved from the proposal date, with a
\* fragment in a year the engine does not track
C20_Witness ==
    /\ Returned /\ InconsistentDates /\ ProposalPresent
    /\ \E i \in DOMAIN clamped_allocations :
          clamped_allocations[i].year \notin TrackedYears

C22_ProjectionWindow ==
    (pc = "matched"
        /\ row.final_bu = "TRAVAUX"
        /\ row.statut_clean \in STATUS_WAITING
        /\ row.probability >= TRAVAUX_PROJECTION_PROBABILITY_THRESHOLD) =>
        LET InWindow(t) ==
                /\ ~isna(t)
                /\ today <= Instant(t, 0)
                /\ Instant(t, 0) <= today + 365 * 24
        IN  matched <=> (InWindow(row.date) \/ InWindow(row.projet_start))

C30_PrimaryIsCounted ==
    pc = "allocated" =>
        /\ primary_for_amount = None <=> tags_for_count = <<>>
        /\ primary_for_amount # None =>
               \E i \in DOMAIN tags_for_count :
                   upper(tags_for_count[i]) = upper(primary_for_amount[1])

\* C24: against a server that answers every request with the slice of at
\* most page_limit proposals at the requested offset, with or without a
\* total count in 'meta', fetch_all requests the offsets 0, page_limit,
\* 2*page_limit, ..., terminates, and returns exactly the proposals of the
\* server, each once.
C24_PaginationCompleteness ==
    /\ [][offset' = offset \/ offset' = offset + page_limit]_vars
    /\ server.success => <>(pc = "fetch_done" /\ all_proposals = server.proposals)

\* C25: whatever the index labels of the frame, unique or repeated, each
\* row of the frame returned by process carries in its financial and
\* diagnostic columns calculate_revenue of that row alone, its other columns
\* are those of the input row, and the input frame is as it was.
C25_RowWiseMap ==
    (pc = "process_done" /\ df.rows # <<>>) =>
        /\ DOMAIN out.rows = DOMAIN df.rows
        /\ \A i \in DOMAIN df.rows :
               /\ out.rows[i].label = df.rows[i].label
               /\ out.rows[i].row = df.rows[i].row
               /\ out.rows[i].cells =
                      calculate_revenue(sorted(Range(years_to_track)), df.rows[i].row)
        /\ \A i \in DOMAIN df.rows : df.rows[i].cells = NoValue

\* C26: the frame returned by process, for every input frame and also for
\* a frame with no rows, has every financial column of every tracked year
\* and the four diagnostic columns.
C26_SchemaPreDeclaration ==
    pc = "process_done" =>
        /\ get_financial_columns(years_to_track) \subseteq out.columns.financial
        /\ flagging_columns \subseteq out.columns.flagging

\* Rules under which the resolver derives an endpoint by month arithmetic.
TwelveMonthRules ==
    {"rule1_start_missing_maintenance", "rule2_end_missing_maintenance",
     "rule3_both_missing_maintenance"}
SixMonthRules ==
    {"rule2_end_missing_travaux", "rule2_end_missing_default",
     "rule3_both_missing_travaux", "rule3_both_missing_default"}

\* C27: whenever the resolver derives an endpoint by month arithmetic, the
\* spreader emits exactly 12 equal fragments in consecutive months for
\* MAINTENANCE and exactly 6 for TRAVAUX and the default bucket, starting in
\* the month of the effective start, whatever the day of the anchor date.
C27_DerivedDurations ==
    (pc \in {"done", "raised"} /\ row.amount # 0) =>
        LET rule == compute_effective_dates(row).rule_name
            count == IF rule \in TwelveMonthRules THEN 12 ELSE 6
        IN  rule \in TwelveMonthRules \cup SixMonthRules =>
                /\ Len(allocations) = count
                /\ FragmentsAt(allocations, 1, count, spread_start, 0,
                               Rat(row.amount, count))

\* an anchor on the 31st whose derived stop is clipped to the 30th
C27_Witness ==
    /\ pc = "done"
    /\ result.dates_rule = "rule2_end_missing_travaux"
    /\ row.projet_start.d = 31
    /\ spread_stop.d = 30
    /\ Len(allocations) = 6

\* C28: in every result of calculate_revenue the reported effective dates
\* are the dates the spreader used; after the 1-month fallback the reported
\* stop equals the start, so two reported dates are always in order.
C28_DiagnosticsReflectDatesUsed ==
    (Returned /\ row.amount # 0) =>
        /\ result.dates_effective_start = spread_start
        /\ (get_final_bu(row) # "CONCEPTION" /\ ~isna(spread_start)) =>
               result.dates_effective_stop = spread_stop
        /\ (~isna(result.dates_effective_start) /\ ~isna(result.dates_effective_stop)) =>
               DateLE(result.dates_effective_start, result.dates_effective_stop)

====
